---- MODULE Spec2Model ----
(***************************************************************************)
(* State-machine model of the Socket.IO event handlers of app.py: the      *)
(* persisted users / channels / messages tables, the in-memory maps       *)
(* active_users and user_channels, and the Socket.IO rooms that the       *)
(* handlers enter, leave and emit to.                                      *)
(*                                                                         *)
(* Specification Spec runs every handler atomically (one event is handled  *)
(* from start to end before the next one starts).  Specification SpecAwait *)
(* runs the handlers as coroutines that give up control at their awaited   *)
(* sio.emit / enter_room / leave_room calls.                                *)
(***************************************************************************)
EXTENDS Integers, Sequences, FiniteSets, TLC

(* ---------------------------------------------------------------- bounds *)
\* cap on the number of rows of the messages table (SpecQuery, which is about
\* the order of several messages, allows one row more)
MaxMessages == 1
\* largest value of the server clock (datetime.utcnow)
MaxClock == 2

(* ------------------------------------------------------ program constants *)
\* default of the limit parameter of get_channel_messages
DefaultLimit == 50

(* ------------------------------------------------------------ input sets *)
\* connection identifiers handed out by Socket.IO; a sid is never reused
Sids == {"c1", "c2"}
\* usernames a client may send in join_app
Usernames == {"alice", "bob"}
\* usernames of the specification in which a client sends an empty username
EmptyUsernames == {"", "alice"}
\* message contents a client may send, as sequences of characters
Contents == {<< >>, <<" ">>, <<" ", "h", " ">>}
\* channel names a client may send in create_channel
ChannelNames == {"general", "dev"}
\* descriptions a client may send in create_channel ('' is data.get's default)
Descriptions == {""}
\* channel ids a client may name: a seeded channel and an id that never exists
\* (the table holds the 3 seeded rows and at most one row per ChannelNames)
ChannelIds == {1, 7}
\* channel ids of the specifications about several memberships
TwoChannelIds == {1, 2, 7}

\* Python's None
None == "None"
\* the value of last before any event has been handled
NoEvent == [op |-> "none"]
\* the value of snap when the event handled last was no join_channel
NoSnap == [sid |-> None, channel_id |-> 0, has |-> FALSE, uc |-> {}, rm |-> {}]
\* the value of task[sid] when no handler of sid is suspended
NoTask == [pc |-> "idle"]

VARIABLES
    connected,      \* sids of the connections that are open
    closed,         \* sids whose disconnect has been handled
    users,          \* users table: row i is the User with id i
    channels,       \* channels table: row i is the Channel with id i
    messages,       \* messages table: row i is the Message with id i
    active_users,   \* dict sid -> username
    user_channels,  \* dict sid -> set of channel ids
    rooms,          \* rooms[sid]: ids ch such that sid is in room channel_<ch>
    clock,          \* last value datetime.utcnow returned
    last,           \* the event handled last, with its arguments
    out,            \* the sio.emit calls of the event handled last, in order
    snap,           \* membership of the caller before the join_channel handled
                    \* last (kept through the leave_channel that follows it)
    task,           \* task[sid]: the suspended handler of sid, with its locals
    sent,           \* ids of the messages in the order of their new_message emit
    live,           \* live[sid]: ids of the new_message events delivered to sid
    hist            \* hist[sid]: ids in the channel_joined delivered to sid last

\* the variables only the suspending handlers of SpecAwait change
awaitVars == <<task, sent, live, hist>>

vars == <<connected, closed, users, channels, messages, active_users,
          user_channels, rooms, clock, last, out, snap, task, sent, live,
          hist>>

(* -------------------------------------------------------------- helpers *)
Min(S) == CHOOSE x \in S : \A y \in S : x <= y

\* dict helpers: d[k] = v, and del d[k]
DictSet(d, k, v) == [x \in DOMAIN d \cup {k} |-> IF x = k THEN v ELSE d[x]]
DictDel(d, k) == [x \in DOMAIN d \ {k} |-> d[x]]

\* a set of integers as the ascending sequence of its elements
RECURSIVE SetToSeq(_)
SetToSeq(S) == IF S = {} THEN << >>
               ELSE <<Min(S)>> \o SetToSeq(S \ {Min(S)})

\* set.add / set.discard
SetAdd(set, x) == set \cup {x}
\* mutant of SetDiscard: the element stays in the set
SetDiscardKeeps(set, x) == set
SetDiscard(set, x) == set \ {x}

\* str.strip(): drop leading and trailing whitespace
IsSpace(ch) == ch = " "
RECURSIVE LStrip(_)
LStrip(s) == IF s # << >> /\ IsSpace(Head(s)) THEN LStrip(Tail(s)) ELSE s
RECURSIVE RStrip(_)
RStrip(s) == IF s # << >> /\ IsSpace(s[Len(s)])
             THEN RStrip(SubSeq(s, 1, Len(s) - 1)) ELSE s
\* mutant of Strip: the content is tested as sent
StripNothing(s) == s
Strip(s) == RStrip(LStrip(s))

\* the rows create_default_channels adds to an empty channels table
DefaultChannels ==
    << [name |-> "general", description |-> "General discussion"],
       [name |-> "random", description |-> "Random conversations"],
       [name |-> "tech", description |-> "Technology discussions"] >>

(* -------------------------------------------------------------- queries *)
\* mutant of get_user_by_socket_id: the filter on socket_id is missing
get_user_unfiltered(sid) == IF users = << >> THEN 0 ELSE 1

\* db.query(User).filter(User.socket_id == sid).first(): SQLite scans the
\* table in rowid order, so the row with the least id is returned; 0 is None
get_user_by_socket_id(sid) ==
    LET hit == {i \in 1..Len(users) : users[i].socket_id = sid}
    IN IF hit = {} THEN 0 ELSE Min(hit)

\* db.query(User).filter(User.username == username).first(); 0 is None
UserByName(username) ==
    LET hit == {i \in 1..Len(users) : users[i].username = username}
    IN IF hit = {} THEN 0 ELSE Min(hit)

\* mutant of ChannelById: the filter on the id is missing
ChannelByIdUnfiltered(channel_id) == IF channels = << >> THEN 0 ELSE 1

\* db.query(Channel).filter(Channel.id == channel_id).first(); 0 is None
ChannelById(channel_id) ==
    IF channel_id \in 1..Len(channels) THEN channel_id ELSE 0

\* mutant of ChannelByName: the name is never found
ChannelByNameMisses(name) == 0

\* db.query(Channel).filter(Channel.name == name).first(); 0 is None
ChannelByName(name) ==
    LET hit == {i \in 1..Len(channels) : channels[i].name = name}
    IN IF hit = {} THEN 0 ELSE Min(hit)

\* the dict a handler builds from a Message row
MessageData(m) ==
    [id |-> m.id, content |-> m.content,
     username |-> users[m.user_id].username,
     timestamp |-> m.timestamp, channel_id |-> m.channel_id]

Reverse(s) == [i \in 1..Len(s) |-> s[Len(s) + 1 - i]]

\* ORDER BY timestamp DESC: the orders of the rows of channel_id in which
\* timestamps never increase; SQL leaves the order of equal timestamps open
DescOrders(channel_id) ==
    LET ids == {i \in 1..Len(messages) : messages[i].channel_id = channel_id}
        n == Cardinality(ids)
    IN {s \in [1..n -> ids] :
          /\ \A i, j \in 1..n : i # j => s[i] # s[j]
          /\ \A i, j \in 1..n :
                i < j => messages[s[i]].timestamp >= messages[s[j]].timestamp}

\* mutant of get_channel_messages: the query gives no row
get_channel_messages_none(channel_id, limit) == {<< >>}

\* get_channel_messages: the results the query can give, as sequences of
\* message ids: ORDER BY timestamp DESC, LIMIT limit, then [::-1]
get_channel_messages(channel_id, limit) ==
    {Reverse(SubSeq(s, 1, IF Len(s) < limit THEN Len(s) ELSE limit)) :
        s \in DescOrders(channel_id)}

(* ----------------------------------------------------------------- emit *)
\* one sio.emit call: the event, the sessions it is delivered to, the payload
Emit(event, to, data) == [event |-> event, to |-> to, data |-> data]

\* mutant of RoomMembers: the emit goes to every connected session
RoomMembersAll(rm, conn, channel_id) == conn

\* the connected sessions in room channel_<channel_id>
RoomMembers(rm, conn, channel_id) == {s \in conn : channel_id \in rm[s]}

(* ----------------------------------------------------------------- Init *)
Init ==
    /\ connected = {}
    /\ closed = {}
    /\ users = << >>
    /\ channels = DefaultChannels
    /\ messages = << >>
    /\ active_users = << >>
    /\ user_channels = << >>
    /\ rooms = [s \in Sids |-> {}]
    /\ clock = 1
    /\ last = NoEvent
    /\ out = << >>
    /\ snap = NoSnap
    /\ task = [s \in Sids |-> NoTask]
    /\ sent = << >>
    /\ live = [s \in Sids |-> << >>]
    /\ hist = [s \in Sids |-> {}]

(* -------------------------------------------------------------- handlers *)
\* connect(sid, environ): only prints
connect(sid) ==
    /\ UNCHANGED awaitVars
    /\ sid \notin connected \cup closed
    /\ connected' = connected \cup {sid}
    /\ last' = [op |-> "connect", sid |-> sid]
    /\ out' = << >>
    /\ snap' = NoSnap
    /\ UNCHANGED <<closed, users, channels, messages, active_users,
                   user_channels, rooms, clock>>

\* mutant of join_app: the session that held the username before is purged
join_app_kicks(sid, username) ==
    /\ UNCHANGED awaitVars
    /\ sid \in connected
    /\ LET found == UserByName(username)
           user_id == IF found = 0 THEN Len(users) + 1 ELSE found
           old == IF found = 0 THEN None ELSE users[found].socket_id
       IN /\ users' = IF found = 0
                      THEN Append(users, [username |-> username,
                                          socket_id |-> sid])
                      ELSE [users EXCEPT ![found].socket_id = sid]
          /\ out' = << Emit("joined_app", {sid},
                            [username |-> username, user_id |-> user_id]) >>
          /\ active_users' = DictSet(DictDel(active_users, old), sid, username)
          /\ user_channels' = DictSet(DictDel(user_channels, old), sid, {})
    /\ last' = [op |-> "join_app", sid |-> sid, username |-> username]
    /\ snap' = NoSnap
    /\ UNCHANGED <<connected, closed, channels, messages, rooms, clock>>

\* join_app(sid, {username})
join_app(sid, username) ==
    /\ UNCHANGED awaitVars
    /\ sid \in connected
    /\ LET found == UserByName(username)
           user_id == IF found = 0 THEN Len(users) + 1 ELSE found
       IN /\ users' = IF found = 0
                      THEN Append(users, [username |-> username,
                                          socket_id |-> sid])
                      ELSE [users EXCEPT ![found].socket_id = sid]
          /\ out' = << Emit("joined_app", {sid},
                            [username |-> username, user_id |-> user_id]) >>
    /\ active_users' = DictSet(active_users, sid, username)
    /\ user_channels' = DictSet(user_channels, sid, {})
    /\ last' = [op |-> "join_app", sid |-> sid, username |-> username]
    /\ snap' = NoSnap
    /\ UNCHANGED <<connected, closed, channels, messages, rooms, clock>>

\* disconnect(sid); Socket.IO takes the sid out of every room afterwards
disconnect(sid) ==
    /\ UNCHANGED awaitVars
    /\ sid \in connected
    /\ LET user == get_user_by_socket_id(sid)
           conn == connected \ {sid}
           purge == user # 0 /\ sid \in DOMAIN active_users
           left == IF purge /\ sid \in DOMAIN user_channels
                   THEN SetToSeq(user_channels[sid]) ELSE << >>
       IN /\ connected' = conn
          /\ users' = IF user # 0
                      THEN [users EXCEPT ![user].socket_id = None] ELSE users
          /\ active_users' = IF purge THEN DictDel(active_users, sid)
                             ELSE active_users
          /\ user_channels' = IF purge THEN DictDel(user_channels, sid)
                              ELSE user_channels
          /\ out' = [i \in 1..Len(left) |->
                       Emit("user_left", RoomMembers(rooms, conn, left[i]),
                            [username |-> active_users[sid],
                             channel_id |-> left[i]])]
    /\ closed' = closed \cup {sid}
    /\ rooms' = [rooms EXCEPT ![sid] = {}]
    /\ last' = [op |-> "disconnect", sid |-> sid]
    /\ snap' = NoSnap
    /\ UNCHANGED <<channels, messages, clock>>

\* join_channel(sid, {channel_id})
join_channel(sid, channel_id) ==
    /\ UNCHANGED awaitVars
    /\ sid \in connected
    /\ LET user == get_user_by_socket_id(sid)
           channel == ChannelById(channel_id)
           rm == [rooms EXCEPT ![sid] = @ \cup {channel_id}]
       IN IF user # 0 /\ channel # 0
          THEN /\ rooms' = rm
               /\ user_channels' =
                     IF sid \in DOMAIN user_channels
                     THEN [user_channels EXCEPT
                             ![sid] = SetAdd(@, channel_id)]
                     ELSE user_channels
               /\ \E msgs \in get_channel_messages(channel_id, DefaultLimit) :
                     out' = << Emit("channel_joined", {sid},
                                   [channel_id |-> channel_id,
                                    channel_name |-> channels[channel].name,
                                    messages |->
                                      [i \in 1..Len(msgs) |->
                                         MessageData(messages[msgs[i]])]]),
                               Emit("user_joined",
                                    RoomMembers(rm, connected, channel_id)
                                       \ {sid},
                                    [username |-> users[user].username,
                                     channel_id |-> channel_id]) >>
               /\ snap' = [sid |-> sid, channel_id |-> channel_id,
                           has |-> sid \in DOMAIN user_channels,
                           uc |-> IF sid \in DOMAIN user_channels
                                  THEN user_channels[sid] ELSE {},
                           rm |-> rooms[sid]]
          ELSE /\ out' = << >>
               /\ snap' = NoSnap
               /\ UNCHANGED <<rooms, user_channels>>
    /\ last' = [op |-> "join_channel", sid |-> sid, channel_id |-> channel_id]
    /\ UNCHANGED <<connected, closed, users, channels, messages,
                   active_users, clock>>

\* leave_channel(sid, {channel_id})
leave_channel(sid, channel_id) ==
    /\ UNCHANGED awaitVars
    /\ sid \in connected
    /\ LET user == get_user_by_socket_id(sid)
           rm == [rooms EXCEPT ![sid] = @ \ {channel_id}]
       IN IF user # 0
          THEN /\ rooms' = rm
               /\ user_channels' =
                     IF sid \in DOMAIN user_channels
                     THEN [user_channels EXCEPT
                             ![sid] = SetDiscard(@, channel_id)]
                     ELSE user_channels
               /\ out' = << Emit("user_left",
                                 RoomMembers(rm, connected, channel_id),
                                 [username |-> users[user].username,
                                  channel_id |-> channel_id]) >>
          ELSE /\ out' = << >>
               /\ UNCHANGED <<rooms, user_channels>>
    /\ last' = [op |-> "leave_channel", sid |-> sid,
                channel_id |-> channel_id]
    /\ snap' = IF /\ last.op = "join_channel"
                  /\ snap.sid = sid
                  /\ snap.channel_id = channel_id
               THEN snap ELSE NoSnap
    /\ UNCHANGED <<connected, closed, users, channels, messages,
                   active_users, clock>>

\* send_message(sid, {channel_id, content}); the Message's timestamp is the
\* server clock at the commit
send_message(sid, channel_id, content) ==
    /\ UNCHANGED awaitVars
    /\ sid \in connected
    /\ LET user == get_user_by_socket_id(sid)
           channel == ChannelById(channel_id)
       IN IF user # 0 /\ channel # 0 /\ Strip(content) # << >>
          THEN /\ \E now \in clock..MaxClock :
                    LET message == [id |-> Len(messages) + 1,
                                    content |-> content,
                                    user_id |-> user,
                                    channel_id |-> channel_id,
                                    timestamp |-> now]
                    IN /\ clock' = now
                       /\ messages' = Append(messages, message)
                       /\ out' = << Emit("new_message",
                                         RoomMembers(rooms, connected,
                                                     channel_id),
                                         MessageData(message)) >>
          ELSE /\ out' = << >>
               /\ UNCHANGED <<messages, clock>>
    /\ last' = [op |-> "send_message", sid |-> sid,
                channel_id |-> channel_id, content |-> content]
    /\ snap' = NoSnap
    /\ UNCHANGED <<connected, closed, users, channels, active_users,
                   user_channels, rooms>>

\* create_channel(sid, {name, description})
create_channel(sid, name, description) ==
    /\ UNCHANGED awaitVars
    /\ sid \in connected
    /\ LET user == get_user_by_socket_id(sid)
           existing_channel == ChannelByName(name)
           new_channel == [name |-> name, description |-> description]
       IN IF user # 0
          THEN IF existing_channel # 0
               THEN /\ out' = << Emit("error", {sid}, [message |-> name]) >>
                    /\ UNCHANGED channels
               ELSE /\ channels' = Append(channels, new_channel)
                    /\ out' = << Emit("channel_created", connected,
                                      [id |-> Len(channels) + 1,
                                       name |-> name,
                                       description |-> description]) >>
          ELSE /\ out' = << >>
               /\ UNCHANGED channels
    /\ last' = [op |-> "create_channel", sid |-> sid, name |-> name]
    /\ snap' = NoSnap
    /\ UNCHANGED <<connected, closed, users, messages, active_users,
                   user_channels, rooms, clock>>

\* a direct call get_channel_messages(channel_id, db, limit), as made by the
\* route /api/channels/{channel_id}/messages; the rows come back as dicts
call_get_channel_messages(channel_id, limit) ==
    /\ UNCHANGED awaitVars
    /\ \E msgs \in get_channel_messages(channel_id, limit) :
          out' = << [event |-> "messages", to |-> {},
                     data |-> [i \in 1..Len(msgs) |->
                                 MessageData(messages[msgs[i]])]] >>
    /\ last' = [op |-> "get_channel_messages", channel_id |-> channel_id,
                limit |-> limit]
    /\ snap' = NoSnap
    /\ UNCHANGED <<connected, closed, users, channels, messages,
                   active_users, user_channels, rooms, clock>>

(* ---------------------------------------------- handlers as coroutines *)
(* A handler runs without interruption up to an awaited sio.enter_room,    *)
(* sio.leave_room or sio.emit that is followed by more code; there other   *)
(* handlers may run.  The calls of the synchronous db Session do not       *)
(* suspend.  At most one handler per connection is suspended at a time.    *)

\* mutant of CommitSuspends: the commit gives up control before the emit
CommitSuspendsToo == TRUE
\* whether send_message gives up control between db.commit() and sio.emit
CommitSuspends == FALSE

\* the handlers that run to their end without giving up control before
\* their last emit: connect, join_app, create_channel
connect_await(sid) == task[sid] = NoTask /\ connect(sid)
join_app_await(sid, username) == task[sid] = NoTask /\ join_app(sid, username)
create_channel_await(sid, name, description) ==
    task[sid] = NoTask /\ create_channel(sid, name, description)

\* the ids of live after a new_message of message id went to the sessions to
Delivered(to, id) ==
    [s \in Sids |-> IF s \in to THEN Append(live[s], id) ELSE live[s]]

\* send_message: the commit and, after it, the emit of new_message
send_message_await(sid, channel_id, content, now) ==
    /\ sid \in connected
    /\ IF task[sid].pc = "sm_committed"
       THEN /\ channel_id = task[sid].channel_id
            /\ content = messages[task[sid].id].content
            /\ LET to == RoomMembers(rooms, connected, channel_id)
               IN /\ out' = << Emit("new_message", to,
                                    MessageData(messages[task[sid].id])) >>
                  /\ sent' = Append(sent, task[sid].id)
                  /\ live' = Delivered(to, task[sid].id)
            /\ task' = [task EXCEPT ![sid] = NoTask]
            /\ UNCHANGED <<messages, clock>>
       ELSE /\ task[sid] = NoTask
            /\ LET user == get_user_by_socket_id(sid)
                   channel == ChannelById(channel_id)
               IN IF user # 0 /\ channel # 0 /\ Strip(content) # << >>
                  THEN   LET message == [id |-> Len(messages) + 1,
                                         content |-> content,
                                         user_id |-> user,
                                         channel_id |-> channel_id,
                                         timestamp |-> now]
                             to == RoomMembers(rooms, connected, channel_id)
                         IN /\ clock' = now
                            /\ messages' = Append(messages, message)
                            /\ IF CommitSuspends
                               THEN /\ task' = [task EXCEPT ![sid] =
                                                  [pc |-> "sm_committed",
                                                   channel_id |-> channel_id,
                                                   id |-> message.id]]
                                    /\ out' = << >>
                                    /\ UNCHANGED <<sent, live>>
                               ELSE /\ out' = << Emit("new_message", to,
                                                      MessageData(message)) >>
                                    /\ sent' = Append(sent, message.id)
                                    /\ live' = Delivered(to, message.id)
                                    /\ UNCHANGED task
                  ELSE /\ out' = << >>
                       /\ UNCHANGED <<messages, clock, task, sent, live>>
    /\ last' = [op |-> "send_message_await", sid |-> sid,
                channel_id |-> channel_id]
    /\ snap' = NoSnap
    /\ UNCHANGED <<connected, closed, users, channels, active_users,
                   user_channels, rooms, hist>>

\* join_channel up to the awaited sio.enter_room
join_channel_enter(sid, channel_id) ==
    /\ sid \in connected
    /\ task[sid] = NoTask
    /\ LET user == get_user_by_socket_id(sid)
           channel == ChannelById(channel_id)
       IN IF user # 0 /\ channel # 0
          THEN /\ rooms' = [rooms EXCEPT ![sid] = @ \cup {channel_id}]
               /\ task' = [task EXCEPT ![sid] =
                             [pc |-> "jc_entered", user |-> user,
                              channel_id |-> channel_id]]
          ELSE UNCHANGED <<rooms, task>>
    /\ out' = << >>
    /\ last' = [op |-> "join_channel_enter", sid |-> sid,
                channel_id |-> channel_id]
    /\ snap' = NoSnap
    /\ UNCHANGED <<connected, closed, users, channels, messages,
                   active_users, user_channels, clock, sent, live, hist>>

\* join_channel from there up to the awaited emit of channel_joined
join_channel_history(sid) ==
    /\ task[sid].pc = "jc_entered"
    /\ LET channel_id == task[sid].channel_id
       IN /\ user_channels' =
                IF sid \in DOMAIN user_channels
                THEN [user_channels EXCEPT ![sid] = SetAdd(@, channel_id)]
                ELSE user_channels
          /\ \E msgs \in get_channel_messages(channel_id, DefaultLimit) :
                /\ out' = << Emit("channel_joined", {sid},
                                  [channel_id |-> channel_id,
                                   channel_name |-> channels[channel_id].name,
                                   messages |->
                                     [i \in 1..Len(msgs) |->
                                        MessageData(messages[msgs[i]])]]) >>
                /\ hist' = [hist EXCEPT ![sid] =
                              {i \in @ : messages[i].channel_id # channel_id}
                                 \cup {msgs[i] : i \in 1..Len(msgs)}]
    /\ task' = [task EXCEPT ![sid].pc = "jc_history"]
    /\ last' = [op |-> "join_channel_history", sid |-> sid,
                channel_id |-> task[sid].channel_id]
    /\ snap' = NoSnap
    /\ UNCHANGED <<connected, closed, users, channels, messages,
                   active_users, rooms, clock, sent, live>>

\* join_channel from there to its end: the emit of user_joined
join_channel_notify(sid) ==
    /\ task[sid].pc = "jc_history"
    /\ LET channel_id == task[sid].channel_id
       IN out' = << Emit("user_joined",
                         RoomMembers(rooms, connected, channel_id) \ {sid},
                         [username |-> users[task[sid].user].username,
                          channel_id |-> channel_id]) >>
    /\ task' = [task EXCEPT ![sid] = NoTask]
    /\ last' = [op |-> "join_channel_notify", sid |-> sid,
                channel_id |-> task[sid].channel_id]
    /\ snap' = NoSnap
    /\ UNCHANGED <<connected, closed, users, channels, messages,
                   active_users, user_channels, rooms, clock, sent, live,
                   hist>>

\* leave_channel up to the awaited sio.leave_room
leave_channel_leave(sid, channel_id) ==
    /\ sid \in connected
    /\ task[sid] = NoTask
    /\ LET user == get_user_by_socket_id(sid)
       IN IF user # 0
          THEN /\ rooms' = [rooms EXCEPT ![sid] = @ \ {channel_id}]
               /\ task' = [task EXCEPT ![sid] =
                             [pc |-> "lc_left", user |-> user,
                              channel_id |-> channel_id]]
          ELSE UNCHANGED <<rooms, task>>
    /\ out' = << >>
    /\ last' = [op |-> "leave_channel_leave", sid |-> sid,
                channel_id |-> channel_id]
    /\ snap' = NoSnap
    /\ UNCHANGED <<connected, closed, users, channels, messages,
                   active_users, user_channels, clock, sent, live, hist>>

\* leave_channel from there to its end: the discard and the emit of user_left
leave_channel_notify(sid) ==
    /\ task[sid].pc = "lc_left"
    /\ LET channel_id == task[sid].channel_id
       IN /\ user_channels' =
                IF sid \in DOMAIN user_channels
                THEN [user_channels EXCEPT
                        ![sid] = SetDiscard(@, channel_id)]
                ELSE user_channels
          /\ out' = << Emit("user_left",
                            RoomMembers(rooms, connected, channel_id),
                            [username |-> users[task[sid].user].username,
                             channel_id |-> channel_id]) >>
    /\ task' = [task EXCEPT ![sid] = NoTask]
    /\ last' = [op |-> "leave_channel_notify", sid |-> sid,
                channel_id |-> task[sid].channel_id]
    /\ snap' = NoSnap
    /\ UNCHANGED <<connected, closed, users, channels, messages,
                   active_users, rooms, clock, sent, live, hist>>

\* disconnect up to the first awaited emit of user_left (to its end when
\* there is none)
disconnect_begin(sid) ==
    /\ sid \in connected
    /\ task[sid] = NoTask
    /\ LET user == get_user_by_socket_id(sid)
           conn == connected \ {sid}
           purge == user # 0 /\ sid \in DOMAIN active_users
           left == IF purge /\ sid \in DOMAIN user_channels
                   THEN SetToSeq(user_channels[sid]) ELSE << >>
       IN /\ connected' = conn
          /\ users' = IF user # 0
                      THEN [users EXCEPT ![user].socket_id = None] ELSE users
          /\ active_users' = IF purge THEN DictDel(active_users, sid)
                             ELSE active_users
          /\ IF left = << >>
             THEN /\ user_channels' = IF purge
                                      THEN DictDel(user_channels, sid)
                                      ELSE user_channels
                  /\ out' = << >>
                  /\ rooms' = [rooms EXCEPT ![sid] = {}]
                  /\ UNCHANGED task
             ELSE /\ out' = << Emit("user_left",
                                    RoomMembers(rooms, conn, Head(left)),
                                    [username |-> active_users[sid],
                                     channel_id |-> Head(left)]) >>
                  /\ task' = [task EXCEPT ![sid] =
                                [pc |-> "dc_emit",
                                 username |-> active_users[sid],
                                 todo |-> Tail(left)]]
                  /\ UNCHANGED <<user_channels, rooms>>
    /\ closed' = closed \cup {sid}
    /\ last' = [op |-> "disconnect_begin", sid |-> sid]
    /\ snap' = NoSnap
    /\ live' = [live EXCEPT ![sid] = << >>]
    /\ hist' = [hist EXCEPT ![sid] = {}]
    /\ UNCHANGED <<channels, messages, clock, sent>>

\* disconnect after an emit of user_left: the next emit, or the end of the
\* loop, del user_channels[sid] and Socket.IO's cleanup of the rooms
disconnect_resume(sid) ==
    /\ task[sid].pc = "dc_emit"
    /\ LET todo == task[sid].todo
       IN IF todo # << >>
          THEN /\ out' = << Emit("user_left",
                                 RoomMembers(rooms, connected, Head(todo)),
                                 [username |-> task[sid].username,
                                  channel_id |-> Head(todo)]) >>
               /\ task' = [task EXCEPT ![sid].todo = Tail(todo)]
               /\ UNCHANGED <<user_channels, rooms>>
          ELSE /\ out' = << >>
               /\ user_channels' = DictDel(user_channels, sid)
               /\ rooms' = [rooms EXCEPT ![sid] = {}]
               /\ task' = [task EXCEPT ![sid] = NoTask]
    /\ last' = [op |-> "disconnect_resume", sid |-> sid]
    /\ snap' = NoSnap
    /\ UNCHANGED <<connected, closed, users, channels, messages,
                   active_users, clock, sent, live, hist>>

(* -------------------------------------------------------- specifications *)
\* the events of the connections S with usernames U and channel ids K, as
\* long as the messages table has at most M rows
Events(S, U, K, M) ==
    \/ \E sid \in S : connect(sid)
    \/ \E sid \in S : disconnect(sid)
    \/ \E sid \in S, username \in U : join_app(sid, username)
    \/ \E sid \in S, channel_id \in K : join_channel(sid, channel_id)
    \/ \E sid \in S, channel_id \in K : leave_channel(sid, channel_id)
    \/ \E sid \in S, channel_id \in K, content \in Contents :
          send_message(sid, channel_id, content) /\ Len(messages') <= M
    \/ \E sid \in S, name \in ChannelNames, description \in Descriptions :
          create_channel(sid, name, description)

\* two connections, two usernames, one channel
Next == Events(Sids, Usernames, ChannelIds, MaxMessages)
Spec == Init /\ [][Next]_vars

\* as Spec, with clients that send an empty username
NextEmpty == Events(Sids, EmptyUsernames, ChannelIds, MaxMessages)
SpecEmpty == Init /\ [][NextEmpty]_vars

\* two connections of one user, two channels
NextChannels == Events(Sids, {"alice"}, TwoChannelIds, MaxMessages)
SpecChannels == Init /\ [][NextChannels]_vars

\* one connection that fills two channels, and queries with every limit
NextQuery ==
    \/ Events({"c1"}, {"alice"}, {1, 2}, MaxMessages + 1)
    \/ \E channel_id \in TwoChannelIds,
          limit \in (0..(MaxMessages + 1)) \cup {DefaultLimit} :
          call_get_channel_messages(channel_id, limit)
SpecQuery == Init /\ [][NextQuery]_vars

\* the handlers as coroutines: two connections, each with a username of its
\* own, one channel, non-blank messages sent at successive instants and one
\* row more in the messages table
UsernameOf == [sid \in Sids |-> IF sid = "c1" THEN "alice" ELSE "bob"]
NextAwait ==
    \/ \E sid \in Sids : connect_await(sid)
    \/ \E sid \in Sids : disconnect_begin(sid)
    \/ \E sid \in Sids : disconnect_resume(sid)
    \/ \E sid \in Sids : join_app_await(sid, UsernameOf[sid])
    \/ \E sid \in Sids : join_channel_enter(sid, 1)
    \/ \E sid \in Sids : join_channel_history(sid)
    \/ \E sid \in Sids : join_channel_notify(sid)
    \/ \E sid \in Sids : leave_channel_leave(sid, 1)
    \/ \E sid \in Sids : leave_channel_notify(sid)
    \/ \E sid \in Sids :
          /\ send_message_await(sid, 1, <<" ", "h", " ">>,
                                Min({clock + 1, MaxClock}))
          /\ Len(messages') <= MaxMessages + 1
    \/ \E sid \in Sids : create_channel_await(sid, "general", "")
SpecAwait == Init /\ [][NextAwait]_vars
(* --------------------------------------------------------------- claims *)
\* the user rows that hold sid as their connection identifier
RowsHolding(sid) == {i \in 1..Len(users) : users[i].socket_id = sid}
\* content consists of whitespace only (or is empty)
IsBlank(content) == \A i \in 1..Len(content) : content[i] = " "
\* channel_id is the id of a row of the channels table
ChannelExists(channel_id) == channel_id \in 1..Len(channels)
\* the events of out with the given name
Emitted(o, event) == {i \in 1..Len(o) : o[i].event = event}
\* the persisted tables and the session state
PersistedAndSessions ==
    <<users, channels, messages, active_users, user_channels, rooms>>

\* C1: for every connection at most one User row holds its connection
\* identifier, and the lookup of the connection's user gives the user of its
\* latest join_app (the username active_users records), never an earlier one.
C1_SingleIdentity ==
    \A c \in connected :
       /\ Cardinality(RowsHolding(c)) <= 1
       /\ (c \in DOMAIN active_users /\ get_user_by_socket_id(c) # 0)
             => users[get_user_by_socket_id(c)].username = active_users[c]

\* C2: a disconnect of a session that is a member of the channels S
\* (its user_channels entry) emits exactly one user_left per channel of S and
\* none for other channels, and leaves no active_users / user_channels entry
\* of the session.
C2_DisconnectNotifiesAndPurges ==
    [][ last'.op = "disconnect" =>
          LET sid == last'.sid
              S == IF sid \in DOMAIN user_channels
                   THEN user_channels[sid] ELSE {}
          IN /\ \A ch \in S :
                  Cardinality({i \in Emitted(out', "user_left") :
                                  out'[i].data.channel_id = ch}) = 1
             /\ \A i \in 1..Len(out') :
                  out'[i].event = "user_left" /\ out'[i].data.channel_id \in S
             /\ sid \notin DOMAIN active_users'
             /\ sid \notin DOMAIN user_channels' ]_vars

\* C3: a send_message with non-blank content to an existing channel, from a
\* connection whose user lookup succeeds, appends exactly one Message whose
\* author is the user the connection is bound to (the username of its latest
\* join_app), emits new_message exactly once, to exactly the connected
\* sessions in the channel's room, and the new id exceeds every earlier id.
C3_SendMessageDelivers ==
    [][ ( /\ last'.op = "send_message"
          /\ RowsHolding(last'.sid) # {}
          /\ ChannelExists(last'.channel_id)
          /\ ~IsBlank(last'.content) ) =>
          LET sid == last'.sid
              n == Len(messages')
          IN /\ n = Len(messages) + 1
             /\ SubSeq(messages', 1, n - 1) = messages
             /\ messages'[n].content = last'.content
             /\ messages'[n].channel_id = last'.channel_id
             /\ users[messages'[n].user_id].username = active_users[sid]
             /\ \A i \in 1..(n - 1) : messages'[i].id < messages'[n].id
             /\ Len(out') = 1
             /\ out'[1].event = "new_message"
             /\ out'[1].data.id = messages'[n].id
             /\ out'[1].data.username = active_users[sid]
             /\ out'[1].to = {s \in connected :
                                last'.channel_id \in rooms[s]} ]_vars

\* C4: a send_message whose content is empty or whitespace only emits nothing
\* and changes neither the tables nor any session state, whoever sends it and
\* whatever channel it names.
C4_BlankMessageIgnored ==
    [][ (last'.op = "send_message" /\ IsBlank(last'.content)) =>
          /\ out' = << >>
          /\ UNCHANGED PersistedAndSessions
          /\ UNCHANGED <<connected, closed, clock>> ]_vars

\* C4 witness: a whitespace-only message from a bound connection that is in
\* the room of the existing channel it names has been handled.
C4_Witness ==
    /\ last.op = "send_message"
    /\ last.content = <<" ">>
    /\ RowsHolding(last.sid) # {}
    /\ ChannelExists(last.channel_id)
    /\ last.channel_id \in rooms[last.sid]

\* C5: channel names are unique in every state; a create_channel of a bound
\* connection with a taken name emits one error to the requester only and
\* leaves the channels table alone, with a fresh name it appends one Channel
\* and emits channel_created to all connected sessions.
C5_CreateChannel ==
    /\ [](\A i, j \in 1..Len(channels) :
             i # j => channels[i].name # channels[j].name)
    /\ [][ (last'.op = "create_channel" /\ RowsHolding(last'.sid) # {}) =>
             IF \E i \in 1..Len(channels) : channels[i].name = last'.name
             THEN /\ channels' = channels
                  /\ Len(out') = 1
                  /\ out'[1].event = "error"
                  /\ out'[1].to = {last'.sid}
             ELSE /\ Len(channels') = Len(channels) + 1
                  /\ SubSeq(channels', 1, Len(channels)) = channels
                  /\ channels'[Len(channels')].name = last'.name
                  /\ Len(out') = 1
                  /\ out'[1].event = "channel_created"
                  /\ out'[1].to = connected
                  /\ out'[1].data.id = Len(channels')
                  /\ out'[1].data.name = last'.name ]_vars

\* C5 witness: a bound connection was refused a taken name after a channel
\* with a fresh name had been created.
C5_Witness ==
    /\ last.op = "create_channel"
    /\ RowsHolding(last.sid) # {}
    /\ Len(channels) = Len(DefaultChannels) + 1
    /\ Len(out) = 1
    /\ out[1].event = "error"

\* the membership of sid: its user_channels entry and its rooms
MembershipIs(sid, has, uc, rm) ==
    /\ (sid \in DOMAIN user_channels) = has
    /\ has => user_channels[sid] = uc
    /\ rooms[sid] = rm

\* C6 as stated: after a join_channel of a bound connection on an existing
\* channel and the leave_channel of that channel that follows it, the
\* connection's membership is what it was before the join_channel.
C6_RoundTripRestores ==
    (last.op = "leave_channel" /\ snap.sid # None) =>
        MembershipIs(snap.sid, snap.has, snap.uc, snap.rm)

\* C6 amended: the same, for a connection that was not in the channel
\* (neither in its user_channels entry nor in the channel's room) before the
\* join_channel.
C6_RoundTripRestoresNonMember ==
    ( /\ last.op = "leave_channel"
      /\ snap.sid # None
      /\ snap.channel_id \notin snap.uc \cup snap.rm ) =>
        MembershipIs(snap.sid, snap.has, snap.uc, snap.rm)

\* C6 witness: a connection that was in another channel only has joined and
\* then left a channel.
C6_Witness ==
    /\ last.op = "leave_channel"
    /\ snap.sid # None
    /\ snap.channel_id \notin snap.uc \cup snap.rm
    /\ snap.uc # {}
    /\ snap.rm # {}

\* C7: a join_channel on a channel the connection has already joined, and a
\* leave_channel on a channel it is not a member of, change no membership and
\* deliver no user_joined / user_left to any session (stated for connections
\* whose user_channels entry and rooms agree).
C7_RepeatIsSilent ==
    [][ ( /\ last'.op \in {"join_channel", "leave_channel"}
          /\ RowsHolding(last'.sid) # {}
          /\ ChannelExists(last'.channel_id)
          /\ last'.sid \in DOMAIN user_channels
          /\ user_channels[last'.sid] = rooms[last'.sid]
          /\ (last'.op = "join_channel")
                = (last'.channel_id \in user_channels[last'.sid]) ) =>
          /\ UNCHANGED <<user_channels, rooms>>
          /\ \A i \in 1..Len(out') :
                out'[i].event \in {"user_joined", "user_left"}
                   => out'[i].to = {} ]_vars

\* C8: every result of get_channel_messages(channel, N) has at most N
\* messages, all of the channel, without duplicates, in non-decreasing
\* timestamp order and in append (id) order, and holds the N messages of the
\* channel appended last.
C8_RecentMessages ==
    last.op = "get_channel_messages" =>
        LET r == out[1].data
            N == last.limit
            ids == {i \in 1..Len(messages) :
                       messages[i].channel_id = last.channel_id}
            k == IF Cardinality(ids) < N THEN Cardinality(ids) ELSE N
        IN /\ Len(r) <= N
           /\ \A i \in 1..Len(r) : r[i].channel_id = last.channel_id
           /\ \A i, j \in 1..Len(r) :
                 i < j => /\ r[i].timestamp <= r[j].timestamp
                          /\ r[i].id < r[j].id
           /\ {r[i].id : i \in 1..Len(r)}
                 = {i \in ids : Cardinality({j \in ids : j > i}) < k}

\* C9: a join_channel, leave_channel, send_message or create_channel of a
\* connection that never did join_app emits nothing and changes neither the
\* tables nor active_users, user_channels or the rooms.
C9_AnonymousDropped ==
    [][ ( /\ last'.op \in {"join_channel", "leave_channel",
                           "send_message", "create_channel"}
          /\ last'.sid \in connected
          /\ last'.sid \notin DOMAIN active_users ) =>
          /\ out' = << >>
          /\ UNCHANGED PersistedAndSessions ]_vars

\* C9 witness: a connection that never did join_app has asked to join an
\* existing channel while a user was bound to another connection.
C9_Witness ==
    /\ last.op = "join_channel"
    /\ last.sid \in connected
    /\ last.sid \notin DOMAIN active_users
    /\ ChannelExists(last.channel_id)
    /\ \E s \in connected : RowsHolding(s) # {}

\* C10: a join_app with an empty username creates no User, binds no identity
\* to the connection and emits no joined_app.
C10_EmptyUsernameRejected ==
    /\ \A i \in 1..Len(users) : users[i].username # ""
    /\ \A c \in DOMAIN active_users : active_users[c] # ""
    /\ (last.op = "join_app" /\ last.username = "") => out = << >>

\* the user_channels entry of sid, empty when there is none
ChannelsOf(uc, sid) == IF sid \in DOMAIN uc THEN uc[sid] ELSE {}

\* C11: as long as a connection that did join_app is connected, its
\* send_message with non-blank content to an existing channel appends a
\* Message and emits new_message, and its join_channel on an existing
\* channel adds the channel to its membership, whatever the other
\* connections did.
C11_StaysIdentified ==
    [][ ( /\ last'.op \in {"send_message", "join_channel"}
          /\ last'.sid \in connected
          /\ last'.sid \in DOMAIN active_users
          /\ ChannelExists(last'.channel_id) ) =>
          IF last'.op = "send_message"
          THEN ~IsBlank(last'.content) =>
                  /\ Len(messages') = Len(messages) + 1
                  /\ Emitted(out', "new_message") # {}
          ELSE /\ last'.channel_id \in ChannelsOf(user_channels', last'.sid)
               /\ last'.channel_id \in rooms'[last'.sid] ]_vars

\* C12: every connection with a user_channels entry has an active_users
\* entry and is connected, and a connection whose disconnect has been
\* handled has neither entry.
C12_MembershipWithinSession ==
    /\ \A c \in DOMAIN user_channels :
          c \in DOMAIN active_users /\ c \in connected
    /\ \A c \in closed :
          c \notin DOMAIN user_channels /\ c \notin DOMAIN active_users

\* C13: no User row holds the connection identifier of a connection whose
\* disconnect has been handled, and User rows are never deleted.
C13_DisconnectClearsBinding ==
    /\ [](\A c \in closed : RowsHolding(c) = {})
    /\ [][ /\ Len(users') >= Len(users)
           /\ \A i \in 1..Len(users) :
                 users'[i].username = users[i].username ]_vars

\* C14: when a connection does join_app with a username whose row holds
\* another connection's identifier, the row then holds the new connection's,
\* no event is delivered to the displaced connection, and the displaced
\* connection's active_users entry, user_channels entry and rooms are as
\* before.
C14_LastJoinWins ==
    [][ \A c1 \in Sids, i \in 1..Len(users) :
          ( /\ last'.op = "join_app"
            /\ c1 # last'.sid
            /\ users[i].username = last'.username
            /\ users[i].socket_id = c1 ) =>
             /\ users'[i].socket_id = last'.sid
             /\ \A k \in 1..Len(out') : c1 \notin out'[k].to
             /\ (c1 \in DOMAIN active_users') = (c1 \in DOMAIN active_users)
             /\ c1 \in DOMAIN active_users
                   => active_users'[c1] = active_users[c1]
             /\ (c1 \in DOMAIN user_channels') = (c1 \in DOMAIN user_channels)
             /\ ChannelsOf(user_channels', c1) = ChannelsOf(user_channels, c1)
             /\ rooms'[c1] = rooms[c1] ]_vars

\* C14 witness: a connection has taken over the username of a connected
\* session that has joined a channel and still has its entries.
C14_Witness ==
    /\ last.op = "join_app"
    /\ \E c1 \in connected \ {last.sid} :
          /\ c1 \in DOMAIN active_users
          /\ active_users[c1] = last.username
          /\ RowsHolding(c1) = {}
          /\ user_channels[c1] # {}
          /\ rooms[c1] # {}

\* C15: a join_channel of a bound connection on an existing channel emits
\* channel_joined with the channel's id, name and messages to the caller
\* only, and user_joined to the other connected sessions in the channel's
\* room and not to the caller.
C15_JoinChannelNotifies ==
    [][ ( /\ last'.op = "join_channel"
          /\ RowsHolding(last'.sid) # {}
          /\ ChannelExists(last'.channel_id) ) =>
          LET sid == last'.sid
              ch == last'.channel_id
              history == out'[1].data.messages
          IN /\ Len(out') = 2
             /\ out'[1].event = "channel_joined"
             /\ out'[1].to = {sid}
             /\ out'[1].data.channel_id = ch
             /\ out'[1].data.channel_name = channels[ch].name
             /\ {history[k].id : k \in 1..Len(history)}
                   = {k \in 1..Len(messages) : messages[k].channel_id = ch}
             /\ out'[2].event = "user_joined"
             /\ out'[2].data.channel_id = ch
             /\ out'[2].to = {s \in connected \ {sid} : ch \in rooms[s]} ]_vars

\* C15 witness: a connection has joined a channel that holds a message and
\* another connected session.
C15_Witness ==
    /\ last.op = "join_channel"
    /\ Len(out) = 2
    /\ out[1].data.messages # << >>
    /\ out[2].to # {}

\* C16: a join_channel, leave_channel or send_message of a bound connection
\* that names a channel id without a Channel row delivers no event to any
\* session and changes neither the tables nor user_channels or the rooms.
C16_UnknownChannelIgnored ==
    [][ ( /\ last'.op \in {"join_channel", "leave_channel", "send_message"}
          /\ RowsHolding(last'.sid) # {}
          /\ ~ChannelExists(last'.channel_id) ) =>
          /\ \A k \in 1..Len(out') : out'[k].to = {}
          /\ UNCHANGED <<users, channels, messages, user_channels, rooms>>
       ]_vars

\* C16 witness: a bound connection that is in a room has asked to leave a
\* channel that does not exist while another session is in a room.
C16_Witness ==
    /\ last.op = "leave_channel"
    /\ ~ChannelExists(last.channel_id)
    /\ RowsHolding(last.sid) # {}
    /\ \A s \in Sids : s \in connected /\ rooms[s] # {}

\* C17: with the handlers split at their awaited sio calls, in every state
\* between two steps a connection id is a key of active_users exactly when
\* it is a key of user_channels.
C17_MapsAgree ==
    \A c \in Sids : (c \in DOMAIN active_users) = (c \in DOMAIN user_channels)

\* C18: for every connected connection the user_channels entry (empty when
\* there is none) is the set of channels whose room the connection is in.
C18_MembershipIsRooms ==
    \A c \in connected : ChannelsOf(user_channels, c) = rooms[c]

\* the ids of the Message rows of a channel
IdsOf(channel_id) ==
    {k \in 1..Len(messages) : messages[k].channel_id = channel_id}

\* the elements of a sequence
Range(s) == {s[k] : k \in 1..Len(s)}

\* a sequence of message ids in which the ids of one channel increase
IdsIncrease(s) ==
    \A i, j \in 1..Len(s) :
        (i < j /\ messages[s[i]].channel_id = messages[s[j]].channel_id)
            => s[i] < s[j]

\* C19: with the handlers split at their awaited sio calls, a Message
\* committed to a channel is delivered as new_message in the same step to
\* every connected session in the channel's room, also to one whose
\* join_channel has not fetched the history yet; the history of a
\* channel_joined holds every Message of the channel committed so far (at
\* most 50 exist); so a session in the room that has got its channel_joined
\* has every Message of the channel in that history or in its new_message
\* deliveries.
C19_NoMessageMissed ==
    /\ [](\A sid \in connected : \A ch \in rooms[sid] :
            task[sid].pc # "jc_entered" =>
                IdsOf(ch) \subseteq hist[sid] \cup Range(live[sid]))
    /\ [][ Len(messages') > Len(messages) =>
             LET id == Len(messages')
             IN \A sid \in connected :
                   messages'[id].channel_id \in rooms[sid]
                      => id \in Range(live'[sid]) ]_vars
    /\ [][ last'.op = "join_channel_history" =>
             /\ IdsOf(last'.channel_id) \subseteq hist'[last'.sid]
             /\ Len(out') = 1
             /\ out'[1].event = "channel_joined"
             /\ out'[1].to = {last'.sid}
             /\ {out'[1].data.messages[k].id :
                    k \in 1..Len(out'[1].data.messages)}
                  = IdsOf(last'.channel_id) ]_vars

\* C19 witness: a session whose join_channel was between entering the room
\* and fetching the history when a message was committed has got that
\* message live and in its history, and a later message live only.
C19_Witness ==
    \E sid \in connected :
        /\ task[sid] = NoTask
        /\ 1 \in rooms[sid]
        /\ Len(messages) = 2
        /\ 1 \in hist[sid] /\ 1 \in Range(live[sid])
        /\ 2 \notin hist[sid] /\ 2 \in Range(live[sid])

\* C20: with the handlers split at their awaited sio calls, new_message of
\* a Message is emitted in the step that commits it, so of two messages of a
\* channel the one with the smaller id is emitted first, and every session
\* gets the new_message events of a channel in increasing id order.
C20_BroadcastInCommitOrder ==
    /\ [](IdsIncrease(sent) /\ \A sid \in Sids : IdsIncrease(live[sid]))
    /\ [][ Len(messages') > Len(messages) =>
             /\ sent' = Append(sent, Len(messages'))
             /\ Len(out') = 1
             /\ out'[1].event = "new_message"
             /\ out'[1].data.id = Len(messages') ]_vars

\* C20 witness: two messages of two senders were emitted to a channel and
\* one session received both.
C20_Witness ==
    /\ Len(sent) = 2
    /\ messages[1].user_id # messages[2].user_id
    /\ messages[1].channel_id = messages[2].channel_id
    /\ \E sid \in connected : Len(live[sid]) = 2
====
